---------------------------- MODULE Spec2Model ----------------------------
(***************************************************************************)
(* A model of auto_uncertainties.uncertainty.Uncertainty: a nominal value  *)
(* paired with an error, over Python numbers and NumPy arrays.             *)
(*                                                                         *)
(* Numbers are exact rationals (with a not-a-number value), NumPy arrays   *)
(* are objects on a heap (an array object names a data buffer and has a    *)
(* shape of its own, so that views and shared references are visible), and *)
(* every method of the class is an operator over such values; the actions  *)
(* apply the methods to the instances that exist.                          *)
(***************************************************************************)
EXTENDS Integers, Sequences, FiniteSets, TLC

VARIABLES
    mem,    \* the data buffers of the NumPy arrays: mem[b] is a flat sequence of numbers
    arrs,   \* the ndarray objects: arrs[a] = [mem |-> buffer, shape |-> its shape]
    objs,   \* the Uncertainty instances: objs[i] = [nom |-> reference, err |-> reference]
    last,   \* the last call made: its method, arguments and outcome
    steps   \* the number of calls made so far

vars == <<mem, arrs, objs, last, steps>>

-----------------------------------------------------------------------------
(* Bounds of the model.                                                    *)

\* The length of every array the callers build.
ArrLen == 2

\* The number of calls explored after the initial construction (array states).
MaxSteps == 2

\* The number of calls explored on scalar operands.
ScalarSteps == 1

\* The number of indexing and array-method calls explored.
StoreSteps == 2

-----------------------------------------------------------------------------
(* Numbers: a rational n/d in lowest terms with d > 0; d = 0 is NaN.       *)

AbsInt(i) == IF i < 0 THEN -i ELSE i

RECURSIVE Gcd(_, _)
Gcd(a, b) == IF b = 0 THEN a ELSE Gcd(b, a % b)

NaN == [n |-> 0, d |-> 0]

Rat(n, d) ==
    IF d = 0 THEN NaN
    ELSE LET g == Gcd(AbsInt(n), AbsInt(d))
             s == IF d < 0 THEN -1 ELSE 1
         IN [n |-> (s * n) \div g, d |-> AbsInt(d) \div g]

R(i) == [n |-> i, d |-> 1]

Zero == R(0)

IsNaN(q) == q.d = 0

QAdd(a, b) == IF IsNaN(a) \/ IsNaN(b) THEN NaN ELSE Rat(a.n * b.d + b.n * a.d, a.d * b.d)

QNeg(a) == IF IsNaN(a) THEN NaN ELSE [n |-> -a.n, d |-> a.d]

QSub(a, b) == QAdd(a, QNeg(b))

QMul(a, b) == IF IsNaN(a) \/ IsNaN(b) THEN NaN ELSE Rat(a.n * b.n, a.d * b.d)

\* a / b; a zero divisor is decided by the caller (Python raises, NumPy does not)
QDiv(a, b) == IF IsNaN(a) \/ IsNaN(b) \/ b.n = 0 THEN NaN ELSE Rat(a.n * b.d, a.d * b.n)

QAbs(a) == IF IsNaN(a) THEN NaN ELSE [n |-> AbsInt(a.n), d |-> a.d]

\* a < b; every comparison with NaN is false
QLt(a, b) == ~IsNaN(a) /\ ~IsNaN(b) /\ a.n * b.d < b.n * a.d

\* a != b; NaN differs from everything
QNe(a, b) == IsNaN(a) \/ IsNaN(b) \/ a # b

\* floor(a) of a rational, as an integer
FloorInt(a) == IF a.n >= 0 THEN a.n \div a.d ELSE -((a.d - a.n - 1) \div a.d)

\* Python's a // b and a % b on floats, b # 0: floor(a/b), and a - b*floor(a/b)
QFloorDiv(a, b) == IF IsNaN(a) \/ IsNaN(b) \/ b.n = 0 THEN NaN ELSE R(FloorInt(QDiv(a, b)))

QMod(a, b) == IF IsNaN(a) \/ IsNaN(b) \/ b.n = 0 THEN NaN ELSE QSub(a, QMul(b, QFloorDiv(a, b)))

ISqrt(m) == CHOOSE r \in 0..m : r * r <= m /\ (r + 1) * (r + 1) > m

\* np.sqrt: exact on the square of a rational, else rounded down on the grid of
\* the denominator (a float's square root is rounded too); NaN below zero.
QSqrt(a) == IF IsNaN(a) \/ a.n < 0 THEN NaN ELSE Rat(ISqrt(a.n * a.d), a.d)

QMin(a, b) == IF IsNaN(a) \/ IsNaN(b) THEN NaN ELSE IF QLt(b, a) THEN b ELSE a

QMax(a, b) == IF IsNaN(a) \/ IsNaN(b) THEN NaN ELSE IF QLt(a, b) THEN b ELSE a

-----------------------------------------------------------------------------
(* Python values: a number (a Python float, or a NumPy scalar when np) or   *)
(* an ndarray (id names the array object it is, 0 for one just computed;   *)
(* base names the buffer it reads, 0 for a result with a buffer to come).  *)

NumV(q, isnp) ==
    [t |-> "num", v |-> q, np |-> isnp, id |-> 0, base |-> 0, shape |-> <<>>, data |-> <<>>]

\* array object a (0: not an object yet) over buffer b (0: a buffer of its own to come)
ArrV(a, b, shp, dat) ==
    [t |-> "arr", v |-> Zero, np |-> TRUE, id |-> a, base |-> b, shape |-> shp, data |-> dat]

Py(i) == NumV(R(i), FALSE)

\* np.shape(v)
Shape(v) == IF v.t = "num" THEN <<>> ELSE v.shape

\* the elements of a value, flattened
Elems(v) == IF v.t = "num" THEN <<v.v>> ELSE v.data

El(v, i) == IF v.t = "num" THEN v.v ELSE v.data[i]

\* The shape two operands broadcast to. Every array has ArrLen elements, in
\* shape (n,) or (1, n); NumPy then yields the shape of more dimensions.
BShape(a, b) == IF Len(Shape(a)) >= Len(Shape(b)) THEN Shape(a) ELSE Shape(b)

BLen(a, b) == IF a.t = "arr" THEN Len(a.data) ELSE Len(b.data)

\* an elementwise binary operation, on numbers or broadcast over arrays
Map2(Op(_, _), a, b) ==
    IF a.t = "num" /\ b.t = "num"
    THEN NumV(Op(a.v, b.v), a.np \/ b.np)
    ELSE ArrV(0, 0, BShape(a, b), [i \in 1..BLen(a, b) |-> Op(El(a, i), El(b, i))])

\* an elementwise unary operation
Map1(Op(_), a) ==
    IF a.t = "num" THEN NumV(Op(a.v), a.np)
    ELSE ArrV(0, 0, a.shape, [i \in 1..Len(a.data) |-> Op(a.data[i])])

QSq(q) == QMul(q, q)

\* np.sqrt(v): a NumPy scalar or array
NpSqrt(a) == [Map1(QSqrt, a) EXCEPT !.np = TRUE]

HasZero(v) == \E i \in 1..Len(Elems(v)) : Elems(v)[i] = Zero

\* a / b, a // b, a % b of two Python floats with b == 0 raise ZeroDivisionError
\* (NumPy operands yield inf or nan with a warning instead)
PyZeroDiv(a, b) == a.t = "num" /\ b.t = "num" /\ ~a.np /\ ~b.np /\ b.v = Zero

-----------------------------------------------------------------------------
(* The outcome of a method: st is "ok" or the exception raised.            *)

Ok(nomV, errV) == [st |-> "ok", nom |-> nomV, err |-> errV]

Fail(exc) == [st |-> exc, nom |-> Py(0), err |-> Py(0)]

\* an operand: an Uncertainty (its nominal and error) or a plain number
UOp(u) == [isU |-> TRUE, nom |-> u.nom, err |-> u.err]

Plain(q) == [isU |-> FALSE, nom |-> NumV(q, FALSE), err |-> Py(0)]

\* is_np_duck_array(type(v)): an array, not a scalar
is_np_duck_array(v) == v.t = "arr"

\* np.any(np.atleast_1d(err) < 0)
AnyNegative(err) == \E i \in 1..Len(Elems(err)) : QLt(Elems(err)[i], Zero)

\* Uncertainty.__new__(cls, value, err)
New(value, err) ==
    IF Shape(value) # Shape(err) THEN Fail("AssertionError")
    ELSE IF AnyNegative(err) THEN Fail("NegativeStdDevError")
    ELSE Ok(value, err)

\* the truth value of (v != 0): ambiguous for an array of several elements
NonZero(v) ==
    IF v.t = "num" THEN [st |-> "ok", b |-> QNe(v.v, Zero)]
    ELSE IF Len(v.data) = 1 THEN [st |-> "ok", b |-> QNe(v.data[1], Zero)]
    ELSE IF Len(v.data) = 0 THEN [st |-> "ok", b |-> FALSE]
    ELSE [st |-> "ValueError", b |-> FALSE]

\* Uncertainty.relative (and rel): err / nom when nom != 0, else np.NaN
relative(self) ==
    LET nz == NonZero(self.nom)
    IN IF nz.st # "ok" THEN [st |-> nz.st, v |-> Py(0)]
       ELSE IF nz.b THEN [st |-> "ok", v |-> Map2(QDiv, self.err, self.nom)]
       ELSE [st |-> "ok", v |-> NumV(NaN, FALSE)]

\* Uncertainty.__add__ (and __radd__)
add(self, other) ==
    IF other.isU
    THEN New(Map2(QAdd, self.nom, other.nom),
             NpSqrt(Map2(QAdd, Map1(QSq, self.err), Map1(QSq, other.err))))
    ELSE New(Map2(QAdd, self.nom, other.nom), self.err)

\* Uncertainty.__sub__
sub(self, other) ==
    IF other.isU
    THEN New(Map2(QSub, self.nom, other.nom),
             NpSqrt(Map2(QAdd, Map1(QSq, self.err), Map1(QSq, other.err))))
    ELSE New(Map2(QSub, self.nom, other.nom), self.err)

\* Uncertainty.__neg__
neg(self) == New(Map1(QNeg, self.nom), self.err)

\* Uncertainty.__pos__
pos(self) == New([self.nom EXCEPT !.id = 0, !.base = 0], self.err)

\* Uncertainty.__abs__
abs(self) == New(Map1(QAbs, self.nom), self.err)

\* Uncertainty.__rsub__: evaluates -self.__sub__(other) and returns nothing
rsub(self, other) ==
    LET d == sub(self, other)
    IN IF d.st # "ok" THEN [st |-> d.st, none |-> TRUE]
       ELSE [st |-> neg(d).st, none |-> TRUE]

\* Uncertainty.__mul__ (and __rmul__)
mul(self, other) ==
    IF other.isU
    THEN LET new_mag == Map2(QMul, self.nom, other.nom)
             rs == relative(self)
             ro == relative(other)
         IN IF rs.st # "ok" THEN Fail(rs.st)
            ELSE IF ro.st # "ok" THEN Fail(ro.st)
            ELSE New(new_mag,
                     Map2(QMul, new_mag,
                          NpSqrt(Map2(QAdd, Map1(QSq, rs.v), Map1(QSq, ro.v)))))
    ELSE New(Map2(QMul, self.nom, other.nom), Map2(QMul, self.err, other.nom))

\* Uncertainty.__truediv__
truediv(self, other) ==
    IF PyZeroDiv(self.nom, other.nom) THEN Fail("ZeroDivisionError")
    ELSE IF other.isU
    THEN LET new_mag == Map2(QDiv, self.nom, other.nom)
             rs == relative(self)
             ro == relative(other)
         IN IF rs.st # "ok" THEN Fail(rs.st)
            ELSE IF ro.st # "ok" THEN Fail(ro.st)
            ELSE New(new_mag,
                     Map2(QMul, new_mag,
                          NpSqrt(Map2(QAdd, Map1(QSq, rs.v), Map1(QSq, ro.v)))))
    ELSE IF PyZeroDiv(self.err, other.nom) THEN Fail("ZeroDivisionError")
    ELSE New(Map2(QDiv, self.nom, other.nom), Map2(QDiv, self.err, other.nom))

\* Uncertainty.__rtruediv__: other / self
rtruediv(self, other) ==
    IF other.isU THEN Fail("Exception")
    ELSE IF PyZeroDiv(other.nom, self.nom) THEN Fail("ZeroDivisionError")
    ELSE LET new_mag == Map2(QDiv, other.nom, self.nom)
             rs == relative(self)
         IN IF rs.st # "ok" THEN Fail(rs.st)
            ELSE New(new_mag, Map2(QMul, new_mag, rs.v))

\* Uncertainty.__floordiv__
floordiv(self, other) ==
    IF PyZeroDiv(self.nom, other.nom) THEN Fail("ZeroDivisionError")
    ELSE New(Map2(QFloorDiv, self.nom, other.nom), Py(0))

\* Uncertainty.__rfloordiv__: other // self
rfloordiv(self, other) ==
    IF other.isU THEN truediv([nom |-> other.nom, err |-> other.err], UOp(self))
    ELSE IF PyZeroDiv(other.nom, self.nom) THEN Fail("ZeroDivisionError")
    ELSE New(Map2(QFloorDiv, other.nom, self.nom), Py(0))

\* Uncertainty.__mod__
mod(self, other) ==
    IF PyZeroDiv(self.nom, other.nom) THEN Fail("ZeroDivisionError")
    ELSE New(Map2(QMod, self.nom, other.nom), Py(0))

\* Uncertainty.__rmod__: other % self
rmod(self, other) ==
    IF PyZeroDiv(other.nom, self.nom) THEN Fail("ZeroDivisionError")
    ELSE New(Map2(QMod, other.nom, self.nom), Py(0))

\* Uncertainty.__pow__: the nominal is computed with %
pow(self, other) ==
    IF PyZeroDiv(self.nom, other.nom) THEN Fail("ZeroDivisionError")
    ELSE New(Map2(QMod, self.nom, other.nom), Py(0))

\* Uncertainty.__rpow__: other ** self, the nominal computed with %
rpow(self, other) ==
    IF PyZeroDiv(other.nom, self.nom) THEN Fail("ZeroDivisionError")
    ELSE New(Map2(QMod, other.nom, self.nom), Py(0))

-----------------------------------------------------------------------------
(* The heap: references held by the instances, and the values behind them. *)

NumRef(q, isnp) == [t |-> "num", v |-> q, np |-> isnp, a |-> 0]

ArrRef(a) == [t |-> "arr", v |-> Zero, np |-> TRUE, a |-> a]

\* the value a reference denotes in the heap (M, A)
ValIn(M, A, r) ==
    IF r.t = "num" THEN NumV(r.v, r.np)
    ELSE ArrV(r.a, A[r.a].mem, A[r.a].shape, M[A[r.a].mem])

\* instance o with its nominal and error read from the heap (M, A)
UIn(M, A, o) == [nom |-> ValIn(M, A, o.nom), err |-> ValIn(M, A, o.err)]

U(i) == UIn(mem, arrs, objs[i])

\* keeping a value: a number is kept as it is, an existing array by reference,
\* a view becomes a new array object over the buffer it views, and an array
\* just computed becomes a new array object with a new buffer
Alloc(M, A, v) ==
    IF v.t = "num" THEN [mem |-> M, arrs |-> A, ref |-> NumRef(v.v, v.np)]
    ELSE IF v.id # 0 THEN [mem |-> M, arrs |-> A, ref |-> ArrRef(v.id)]
    ELSE IF v.base # 0
    THEN [mem |-> M,
          arrs |-> Append(A, [mem |-> v.base, shape |-> v.shape]),
          ref |-> ArrRef(Len(A) + 1)]
    ELSE [mem |-> Append(M, v.data),
          arrs |-> Append(A, [mem |-> Len(M) + 1, shape |-> v.shape]),
          ref |-> ArrRef(Len(A) + 1)]

ObjIds == 1..Len(objs)

\* the plain numbers callers pass as operands
PlainNums == {R(-1), R(0), R(2)}

\* an operand of a call: instance j, or the plain number k when j = 0
Operands == [j : ObjIds, k : {Zero}] \cup [j : {0}, k : PlainNums]

PlainOperands == [j : {0}, k : PlainNums]

Opnd(o) == IF o.j = 0 THEN Plain(o.k) ELSE UOp(U(o.j))

NoCall ==
    [op |-> "init", self |-> 0, other |-> 0, k |-> Zero, k2 |-> Zero, key |-> 0,
     shape |-> <<>>, st |-> "ok", res |-> 0, iseq |-> FALSE, h1 |-> <<>>, h2 |-> <<>>]

\* the record of a call of method op on instance i with operand o
C(op, i, o) == [NoCall EXCEPT !.op = op, !.self = i, !.other = o.j, !.k = o.k]

Done(c, st, res) == [c EXCEPT !.st = st, !.res = res]

Tick == steps' = steps - 1

\* a call that returns a new instance, or raises
Returns(c, r) ==
    /\ Tick
    /\ IF r.st = "ok"
       THEN LET h1 == Alloc(mem, arrs, r.nom)
                h2 == Alloc(h1.mem, h1.arrs, r.err)
            IN /\ mem' = h2.mem
               /\ arrs' = h2.arrs
               /\ objs' = Append(objs, [nom |-> h1.ref, err |-> h2.ref])
               /\ last' = Done(c, "ok", Len(objs) + 1)
       ELSE /\ UNCHANGED <<mem, arrs, objs>>
            /\ last' = Done(c, r.st, 0)

\* an in-place operator, new being the outcome of the plain operator: an
\* array-backed self takes the attributes of new and is returned, a scalar-backed
\* self is left alone and new is returned
InPlace(c, i, new) ==
    /\ Tick
    /\ IF new.st # "ok"
       THEN /\ UNCHANGED <<mem, arrs, objs>>
            /\ last' = Done(c, new.st, 0)
       ELSE LET h1 == Alloc(mem, arrs, new.nom)
                h2 == Alloc(h1.mem, h1.arrs, new.err)
                made == [nom |-> h1.ref, err |-> h2.ref]
            IN /\ mem' = h2.mem
               /\ arrs' = h2.arrs
               /\ IF is_np_duck_array(U(i).nom)
                  THEN /\ objs' = [objs EXCEPT ![i] = made]
                       /\ last' = Done(c, "ok", i)
                  ELSE /\ objs' = Append(objs, made)
                       /\ last' = Done(c, "ok", Len(objs) + 1)

\* NumPy's inf (a zero divisor that does not raise) is outside the numbers modelled
Finite(r, divisor) == ~(r.st = "ok" /\ HasZero(divisor))

-----------------------------------------------------------------------------
(* The operators, as calls.                                                *)

Add ==
    /\ steps > 0
    /\ \E i \in ObjIds, o \in Operands :
        Returns(C("add", i, o), add(U(i), Opnd(o)))

\* k + X
RAdd ==
    /\ steps > 0
    /\ \E i \in ObjIds, o \in PlainOperands :
        Returns(C("radd", i, o), add(U(i), Opnd(o)))

Sub ==
    /\ steps > 0
    /\ \E i \in ObjIds, o \in Operands :
        Returns(C("sub", i, o), sub(U(i), Opnd(o)))

\* k - X: nothing is returned
RSub ==
    /\ steps > 0
    /\ \E i \in ObjIds, o \in PlainOperands :
            /\ Tick
            /\ UNCHANGED <<mem, arrs, objs>>
            /\ last' = Done(C("rsub", i, o), rsub(U(i), Opnd(o)).st, 0)

Mul ==
    /\ steps > 0
    /\ \E i \in ObjIds, o \in Operands :
        Returns(C("mul", i, o), mul(U(i), Opnd(o)))

\* k * X
RMul ==
    /\ steps > 0
    /\ \E i \in ObjIds, o \in PlainOperands :
        Returns(C("rmul", i, o), mul(U(i), Opnd(o)))

TrueDiv ==
    /\ steps > 0
    /\ \E i \in ObjIds, o \in Operands :
            LET r == truediv(U(i), Opnd(o))
            IN /\ Finite(r, Opnd(o).nom)
               /\ Returns(C("truediv", i, o), r)

\* k / X
RTrueDiv ==
    /\ steps > 0
    /\ \E i \in ObjIds, o \in PlainOperands :
            LET r == rtruediv(U(i), Opnd(o))
            IN /\ Finite(r, U(i).nom)
               /\ Returns(C("rtruediv", i, o), r)

FloorDiv ==
    /\ steps > 0
    /\ \E i \in ObjIds, o \in Operands :
            LET r == floordiv(U(i), Opnd(o))
            IN /\ Finite(r, Opnd(o).nom)
               /\ Returns(C("floordiv", i, o), r)

\* k // X
RFloorDiv ==
    /\ steps > 0
    /\ \E i \in ObjIds, o \in PlainOperands :
            LET r == rfloordiv(U(i), Opnd(o))
            IN /\ Finite(r, U(i).nom)
               /\ Returns(C("rfloordiv", i, o), r)

Mod ==
    /\ steps > 0
    /\ \E i \in ObjIds, o \in Operands :
            LET r == mod(U(i), Opnd(o))
            IN /\ Finite(r, Opnd(o).nom)
               /\ Returns(C("mod", i, o), r)

\* k % X
RMod ==
    /\ steps > 0
    /\ \E i \in ObjIds, o \in PlainOperands :
            LET r == rmod(U(i), Opnd(o))
            IN /\ Finite(r, U(i).nom)
               /\ Returns(C("rmod", i, o), r)

Pow ==
    /\ steps > 0
    /\ \E i \in ObjIds, o \in Operands :
            LET r == pow(U(i), Opnd(o))
            IN /\ Finite(r, Opnd(o).nom)
               /\ Returns(C("pow", i, o), r)

\* k ** X
RPow ==
    /\ steps > 0
    /\ \E i \in ObjIds, o \in PlainOperands :
            LET r == rpow(U(i), Opnd(o))
            IN /\ Finite(r, U(i).nom)
               /\ Returns(C("rpow", i, o), r)

NoOperand == [j |-> 0, k |-> Zero]

Neg ==
    /\ steps > 0
    /\ \E i \in ObjIds :
        Returns(C("neg", i, NoOperand), neg(U(i)))

Pos ==
    /\ steps > 0
    /\ \E i \in ObjIds :
        Returns(C("pos", i, NoOperand), pos(U(i)))

Abs ==
    /\ steps > 0
    /\ \E i \in ObjIds :
        Returns(C("abs", i, NoOperand), abs(U(i)))

IAdd ==
    /\ steps > 0
    /\ \E i \in ObjIds, o \in Operands :
        InPlace(C("iadd", i, o), i, add(U(i), Opnd(o)))

ISub ==
    /\ steps > 0
    /\ \E i \in ObjIds, o \in Operands :
        InPlace(C("isub", i, o), i, sub(U(i), Opnd(o)))

IMul ==
    /\ steps > 0
    /\ \E i \in ObjIds, o \in Operands :
        InPlace(C("imul", i, o), i, mul(U(i), Opnd(o)))

ITrueDiv ==
    /\ steps > 0
    /\ \E i \in ObjIds, o \in Operands :
            LET r == truediv(U(i), Opnd(o))
            IN /\ Finite(r, Opnd(o).nom)
               /\ InPlace(C("itruediv", i, o), i, r)

IFloorDiv ==
    /\ steps > 0
    /\ \E i \in ObjIds, o \in Operands :
            LET r == floordiv(U(i), Opnd(o))
            IN /\ Finite(r, Opnd(o).nom)
               /\ InPlace(C("ifloordiv", i, o), i, r)

IMod ==
    /\ steps > 0
    /\ \E i \in ObjIds, o \in Operands :
            LET r == mod(U(i), Opnd(o))
            IN /\ Finite(r, Opnd(o).nom)
               /\ InPlace(C("imod", i, o), i, r)

IPow ==
    /\ steps > 0
    /\ \E i \in ObjIds, o \in Operands :
            LET r == pow(U(i), Opnd(o))
            IN /\ Finite(r, Opnd(o).nom)
               /\ InPlace(C("ipow", i, o), i, r)

-----------------------------------------------------------------------------
(* Construction from the caller's values.                                  *)

\* the arrays callers build: ArrLen elements, shape (ArrLen,)
NomVecs == {[i \in 1..ArrLen |-> R(c * i)] : c \in {-1, 2}}

ErrVecs == {[i \in 1..ArrLen |-> R(e)] : e \in {0, 1}}

BadErrVec == [i \in 1..ArrLen |-> IF i = ArrLen THEN R(-1) ELSE R(1)]

Fresh(dat) == ArrV(0, 0, <<Len(dat)>>, dat)

CallerValues == {NumV(q, FALSE) : q \in PlainNums} \cup {Fresh(d) : d \in NomVecs}

CallerErrors ==
    {NumV(q, FALSE) : q \in {R(-1), R(0), R(1)}} \cup {Fresh(d) : d \in ErrVecs \cup {BadErrVec}}

\* Uncertainty(value, err)
Construct ==
    /\ steps > 0
    /\ \E value \in CallerValues, err \in CallerErrors :
            Returns(C("new", 0, NoOperand), New(value, err))

\* val[i] = x on a fresh one-dimensional array: x must be a number
RECURSIVE SeqStatus(_, _)
SeqStatus(seq, n) ==
    IF n > Len(seq) THEN "ok"
    ELSE IF U(seq[n]).nom.t = "arr" \/ U(seq[n]).err.t = "arr" THEN "ValueError"
    ELSE SeqStatus(seq, n + 1)

\* Uncertainty.from_sequence(seq) (and from_list)
from_sequence(seq) ==
    IF SeqStatus(seq, 1) # "ok" THEN Fail(SeqStatus(seq, 1))
    ELSE New(ArrV(0, 0, <<Len(seq)>>, [i \in 1..Len(seq) |-> U(seq[i]).nom.v]),
             ArrV(0, 0, <<Len(seq)>>, [i \in 1..Len(seq) |-> U(seq[i]).err.v]))

FromSequence ==
    /\ steps > 0
    /\ \E seq \in [1..ArrLen -> ObjIds] :
            Returns(C("from_sequence", 0, NoOperand), from_sequence(seq))

-----------------------------------------------------------------------------
(* Indexing and the array methods.                                         *)

Keys == 0..ArrLen

\* the number of rows (the length of the leading axis) of an array
Rows(v) == v.shape[1]

\* v[key] for an integer key: an element of a one-dimensional array, a view of
\* a row of a two-dimensional one
Index(v, key) ==
    IF v.t = "num"
    THEN [st |-> IF v.np THEN "IndexError" ELSE "TypeError", v |-> Py(0)]
    ELSE IF key >= Rows(v) THEN [st |-> "IndexError", v |-> Py(0)]
    ELSE IF Len(v.shape) = 1 THEN [st |-> "ok", v |-> NumV(v.data[key + 1], TRUE)]
    ELSE [st |-> "ok", v |-> ArrV(0, v.base, Tail(v.shape), v.data)]

\* Uncertainty.__getitem__
getitem(self, key) ==
    LET n == Index(self.nom, key)
        e == Index(self.err, key)
    IN IF n.st # "ok" THEN Fail(n.st)
       ELSE IF e.st # "ok" THEN Fail(e.st)
       ELSE New(n.v, e.v)

GetItem ==
    /\ steps > 0
    /\ \E i \in ObjIds, key \in Keys :
            Returns([C("getitem", i, NoOperand) EXCEPT !.key = key], getitem(U(i), key))

\* target[key] = x in the heap (M, A): the buffers afterwards, or the exception
Assign(M, A, r, key, x) ==
    LET v == ValIn(M, A, r)
    IN IF Index(v, key).st # "ok" THEN [st |-> Index(v, key).st, mem |-> M]
       ELSE IF Len(v.shape) = 1
       THEN IF x.t = "arr" THEN [st |-> "ValueError", mem |-> M]
            ELSE [st |-> "ok", mem |-> [M EXCEPT ![v.base][key + 1] = x.v]]
       ELSE [st |-> "ok",
             mem |-> [M EXCEPT ![v.base] = [c \in 1..Len(v.data) |-> El(x, c)]]]

\* __setitem__ without its write to the error storage
setitem_nominal_only(M, A, o, key, isU, value) ==
    IF ~isU THEN [st |-> "ValueError", mem |-> M]
    ELSE IF Index(ValIn(M, A, o.nom), key).st # "ok"
    THEN [st |-> Index(ValIn(M, A, o.nom), key).st, mem |-> M]
    ELSE Assign(M, A, o.nom, key, ValIn(M, A, value.nom))

\* Uncertainty.__setitem__(key, value): the buffers afterwards and the outcome
setitem(M, A, o, key, isU, value) ==
    IF ~isU THEN [st |-> "ValueError", mem |-> M]
    ELSE IF Index(ValIn(M, A, o.nom), key).st # "ok"
    THEN [st |-> Index(ValIn(M, A, o.nom), key).st, mem |-> M]
    ELSE LET w1 == Assign(M, A, o.nom, key, ValIn(M, A, value.nom))
         IN IF w1.st # "ok" THEN w1
            ELSE Assign(w1.mem, A, o.err, key, ValIn(w1.mem, A, value.err))

\* a call that writes into buffers and returns nothing
Writes(c, w) ==
    /\ Tick
    /\ mem' = w.mem
    /\ UNCHANGED <<arrs, objs>>
    /\ last' = Done(c, w.st, 0)

\* a scalar-backed instance holding a NumPy scalar
NpScalar(i) == objs[i].nom.t = "num" /\ objs[i].nom.np

SetItem ==
    /\ steps > 0
    /\ \E i \in ObjIds, key \in Keys, o \in Operands :
            Writes([C("setitem", i, o) EXCEPT !.key = key],
                   setitem(mem, arrs, objs[i], key, o.j # 0,
                           IF o.j # 0 THEN objs[o.j] ELSE objs[i]))

\* a.put(idx, x, mode="raise") in the heap (M, A), idx a flat index
PutAt(M, A, r, idx, x) ==
    LET v == ValIn(M, A, r)
    IN IF v.t = "num" THEN [st |-> "AttributeError", mem |-> M]
       ELSE IF idx >= Len(v.data) THEN [st |-> "IndexError", mem |-> M]
       ELSE [st |-> "ok", mem |-> [M EXCEPT ![v.base][idx + 1] = El(x, 1)]]

\* Uncertainty.put(indices, values)
put(M, A, o, idx, isU, values) ==
    IF ~isU THEN [st |-> "ValueError", mem |-> M]
    ELSE LET w1 == PutAt(M, A, o.nom, idx, ValIn(M, A, values.nom))
         IN IF w1.st # "ok" THEN w1
            ELSE PutAt(w1.mem, A, o.err, idx, ValIn(w1.mem, A, values.err))

Put ==
    /\ steps > 0
    /\ \E i \in ObjIds, idx \in Keys, o \in Operands :
            /\ ~NpScalar(i)
            /\ Writes([C("put", i, o) EXCEPT !.key = idx],
                      put(mem, arrs, objs[i], idx, o.j # 0,
                          IF o.j # 0 THEN objs[o.j] ELSE objs[i]))

\* fill applied to the error storage as well as to the nominal storage
fill_both(M, A, o, value) ==
    LET v == ValIn(M, A, o.nom)
        e == ValIn(M, A, o.err)
    IN IF v.t = "num" THEN [st |-> "AttributeError", mem |-> M]
       ELSE [st |-> "ok",
             mem |-> [b \in 1..Len(M) |->
                         IF b = v.base \/ b = e.base
                         THEN [c \in 1..Len(M[b]) |-> value] ELSE M[b]]]

\* Uncertainty.fill(value)
fill(M, A, o, value) ==
    LET v == ValIn(M, A, o.nom)
    IN IF v.t = "num" THEN [st |-> "AttributeError", mem |-> M]
       ELSE [st |-> "ok", mem |-> [M EXCEPT ![v.base] = [c \in 1..Len(v.data) |-> value]]]

Fill ==
    /\ steps > 0
    /\ \E i \in ObjIds, o \in PlainOperands :
            /\ ~NpScalar(i)
            /\ Writes(C("fill", i, o), fill(mem, arrs, objs[i], o.k))

\* the bounds callers clip to
ClipBounds == {<<R(0), R(2)>>, <<R(-1), R(1)>>}

\* Uncertainty.clip(min, max)
clip(self, lo, hi) ==
    IF self.nom.t = "num" THEN Fail("AttributeError")
    ELSE New(ArrV(0, 0, self.nom.shape,
                  [c \in 1..Len(self.nom.data) |-> QMin(QMax(self.nom.data[c], lo), hi)]),
             self.err)

Clip ==
    /\ steps > 0
    /\ \E i \in ObjIds, b \in ClipBounds :
            /\ ~NpScalar(i)
            /\ Returns([C("clip", i, NoOperand) EXCEPT !.k = b[1], !.k2 = b[2]],
                       clip(U(i), b[1], b[2]))

RECURSIVE Size(_)
Size(shp) == IF shp = <<>> THEN 1 ELSE Head(shp) * Size(Tail(shp))

\* a.shape = shp on the array object behind r: the array objects afterwards
Reshape(M, A, r, shp) ==
    IF r.t = "num" THEN [st |-> "AttributeError", arrs |-> A]
    ELSE IF Size(shp) # Len(M[A[r.a].mem]) THEN [st |-> "ValueError", arrs |-> A]
    ELSE [st |-> "ok", arrs |-> [A EXCEPT ![r.a].shape = shp]]

\* the setter of Uncertainty.shape
shape(M, A, o, value) ==
    LET s1 == Reshape(M, A, o.nom, value)
    IN IF s1.st # "ok" THEN s1 ELSE Reshape(M, s1.arrs, o.err, value)

\* the shapes callers assign: flat, one row, and one of another size
ShapeInputs == {<<ArrLen>>, <<1, ArrLen>>, <<ArrLen + 1>>}

SetShape ==
    /\ steps > 0
    /\ \E i \in ObjIds, value \in ShapeInputs :
            /\ ~NpScalar(i)
            /\ Tick
            /\ arrs' = shape(mem, arrs, objs[i], value).arrs
            /\ UNCHANGED <<mem, objs>>
            /\ last' = Done([C("shape", i, NoOperand) EXCEPT !.shape = value],
                            shape(mem, arrs, objs[i], value).st, 0)

-----------------------------------------------------------------------------
(* Equality and hash, on scalar-backed instances.                          *)

\* Uncertainty.__eq__: the nominal values are compared
eq(self, other) == ~QNe(self.nom.v, other.nom.v)

\* hash(x) of a number: equal numbers hash alike, and hash(-1) is -2
HashNum(q) == IF q = R(-1) THEN R(-2) ELSE q

\* Uncertainty.__hash__: hash((cls, nom, err)), a tuple's hash being decided by
\* the hashes of its members
hash(self) == <<"Uncertainty", HashNum(self.nom.v), HashNum(self.err.v)>>

\* hash(other) of an operand
HashOf(other) ==
    IF other.isU THEN hash([nom |-> other.nom, err |-> other.err])
    ELSE <<HashNum(other.nom.v)>>

ScalarBacked(u) == u.nom.t = "num" /\ u.err.t = "num"

\* a == b, hash(a), hash(b)
HashEq ==
    /\ steps > 0
    /\ \E i \in ObjIds, o \in Operands :
            /\ ScalarBacked(U(i))
            /\ o.j # 0 => ScalarBacked(U(o.j))
            /\ Tick
            /\ UNCHANGED <<mem, arrs, objs>>
            /\ last' = [Done(C("hash", i, o), "ok", 0) EXCEPT
                            !.iseq = eq(U(i), Opnd(o)),
                            !.h1 = hash(U(i)),
                            !.h2 = HashOf(Opnd(o))]

-----------------------------------------------------------------------------
(* The specifications.                                                     *)

\* the scalar-backed instances callers start from
ScalarNoms == {R(-4), R(0), R(3)}

ScalarErrs == {R(0), R(1)}

ScalarObjs == [nom : {NumRef(q, FALSE) : q \in ScalarNoms}, err : {NumRef(q, FALSE) : q \in ScalarErrs}]

\* X = Uncertainty(a, e) on two arrays of the caller, and a scalar-backed V
Init ==
    /\ \E a \in NomVecs, e \in ErrVecs : mem = <<a, e>>
    /\ arrs = <<[mem |-> 1, shape |-> <<ArrLen>>], [mem |-> 2, shape |-> <<ArrLen>>]>>
    /\ \E v \in {o \in ScalarObjs : o.nom.v = R(3)} :
           objs = <<[nom |-> ArrRef(1), err |-> ArrRef(2)], v>>
    /\ last = NoCall
    /\ steps = MaxSteps

Arithmetic ==
    \/ Add \/ RAdd \/ Sub \/ RSub \/ Mul \/ RMul \/ TrueDiv \/ RTrueDiv
    \/ FloorDiv \/ RFloorDiv \/ Mod \/ RMod \/ Pow \/ RPow
    \/ Neg \/ Pos \/ Abs
    \/ IAdd \/ ISub \/ IMul \/ ITrueDiv \/ IFloorDiv \/ IMod \/ IPow

Next ==
    \/ Arithmetic
    \/ Construct \/ FromSequence
    \/ GetItem \/ SetItem \/ Put \/ Fill \/ Clip \/ SetShape
    \/ HashEq

Spec == Init /\ [][Next]_vars

\* two scalar-backed instances X and Y
InitScalar ==
    /\ mem = <<>>
    /\ arrs = <<>>
    /\ \E x \in ScalarObjs, y \in ScalarObjs : objs = <<x, y>>
    /\ last = NoCall
    /\ steps = ScalarSteps

NextScalar == Arithmetic \/ HashEq

SpecScalar == InitScalar /\ [][NextScalar]_vars

\* indexing and the array methods (with negation to make instances that share
\* an error array), from the same initial states
InitStore ==
    /\ \E a \in NomVecs, e \in ErrVecs : mem = <<a, e>>
    /\ arrs = <<[mem |-> 1, shape |-> <<ArrLen>>], [mem |-> 2, shape |-> <<ArrLen>>]>>
    /\ \E v \in {o \in ScalarObjs : o.nom.v = R(3)} :
           objs = <<[nom |-> ArrRef(1), err |-> ArrRef(2)], v>>
    /\ last = NoCall
    /\ steps = StoreSteps

NextStore == Neg \/ GetItem \/ SetItem \/ Put \/ Fill \/ Clip \/ SetShape

SpecStore == InitStore /\ [][NextStore]_vars

-----------------------------------------------------------------------------
(* The properties.                                                         *)

\* q >= 0 (false of NaN)
Ge0(q) == ~IsNaN(q) /\ q.n >= 0

\* the numbers of a scalar-backed instance
NomOf(i) == U(i).nom.v

ErrOf(i) == U(i).err.v

\* the operand of the last call, as a number: the plain k, or Y's nominal
OtherNom == IF last.other = 0 THEN last.k ELSE NomOf(last.other)

\* C1: every element of the error of every Uncertainty that exists is >= 0,
\* after any sequence of constructions, operators and array methods.
C1_ErrorNonNegative ==
    \A i \in ObjIds : \A c \in 1..Len(Elems(U(i).err)) : Ge0(Elems(U(i).err)[c])

\* C2: the nominal and the error of every Uncertainty that exists have the
\* same shape, after any sequence of constructions, operators and array methods.
C2_ShapeAgreement == \A i \in ObjIds : Shape(U(i).nom) = Shape(U(i).err)

InPlaceOps == {"iadd", "isub", "imul", "itruediv", "ifloordiv", "imod", "ipow"}

\* C3: an in-place operator on an array-backed X returns X itself, and the
\* arrays X held before the call hold the new nominal and the new error.
C3_InPlaceWritesStorage ==
    [][(/\ last'.op \in InPlaceOps
        /\ last'.st = "ok"
        /\ objs[last'.self].nom.t = "arr")
       => /\ last'.res = last'.self
          /\ ValIn(mem', arrs', objs[last'.self].nom).data
                 = ValIn(mem', arrs', objs'[last'.self].nom).data
          /\ ValIn(mem', arrs', objs[last'.self].err).data
                 = ValIn(mem', arrs', objs'[last'.self].err).data]_vars

\* C4: X * k and k * X, for a scalar X = (x, e) and a plain number k of any
\* sign, succeed with nominal x*k and error e*k.
C4_ScalarMultiple ==
    (last.op \in {"mul", "rmul"} /\ last.other = 0 /\ ScalarBacked(U(last.self)))
    => /\ last.st = "ok"
       /\ NomOf(last.res) = QMul(NomOf(last.self), last.k)
       /\ ErrOf(last.res) = QMul(ErrOf(last.self), last.k)

\* the square of the error the product law gives: (ex*y)^2 + (ey*x)^2
ProductErrSq(i, j) ==
    QAdd(QSq(QMul(ErrOf(i), NomOf(j))), QSq(QMul(ErrOf(j), NomOf(i))))

\* C5: X * Y for scalar X, Y with nonzero nominals of any sign succeeds with
\* nominal x*y and an error r >= 0 with r^2 = (ex*y)^2 + (ey*x)^2 (required
\* where that number has an exact root, the square root being rounded).
C5_Product ==
    (/\ last.op = "mul" /\ last.other # 0
     /\ ScalarBacked(U(last.self)) /\ ScalarBacked(U(last.other))
     /\ NomOf(last.self) # Zero /\ NomOf(last.other) # Zero)
    => /\ last.st = "ok"
       /\ NomOf(last.res) = QMul(NomOf(last.self), NomOf(last.other))
       /\ Ge0(ErrOf(last.res))
       /\ LET t == ProductErrSq(last.self, last.other)
          IN QSq(QSqrt(t)) = t => QSq(ErrOf(last.res)) = t

RECURSIVE IntPow(_, _)
IntPow(b, e) == IF e = 0 THEN 1 ELSE b * IntPow(b, e - 1)

\* b ** e for an integer exponent e
QPow(b, e) ==
    IF e.n >= 0 THEN Rat(IntPow(b.n, e.n), IntPow(b.d, e.n))
    ELSE Rat(IntPow(b.d, -e.n), IntPow(b.n, -e.n))

\* what the operator of the last call denotes, on the left operand a and the right b
Denoted(op, a, b) ==
    IF op \in {"pow", "rpow"} THEN QPow(a, b)
    ELSE IF op \in {"floordiv", "rfloordiv"} THEN QFloorDiv(a, b)
    ELSE QMod(a, b)

\* C6: X ** Y, X // Y, X % Y (Y a plain number or an Uncertainty, its nominal
\* y != 0) and the reflected y ** X, y // X, y % X return the nominal
\* operation's result with error exactly 0.
C6_NominalOnlyOps ==
    /\ (/\ last.op \in {"pow", "floordiv", "mod"}
        /\ ScalarBacked(U(last.self))
        /\ last.other # 0 => ScalarBacked(U(last.other))
        /\ OtherNom # Zero
        /\ ~(last.op = "pow" /\ NomOf(last.self) = Zero /\ OtherNom.n < 0))
       => /\ last.st = "ok"
          /\ NomOf(last.res) = Denoted(last.op, NomOf(last.self), OtherNom)
          /\ ErrOf(last.res) = Zero
    /\ (/\ last.op \in {"rpow", "rfloordiv", "rmod"}
        /\ ScalarBacked(U(last.self))
        /\ last.op # "rpow" => NomOf(last.self) # Zero
        /\ ~(last.op = "rpow" /\ last.k = Zero /\ NomOf(last.self).n < 0))
       => /\ last.st = "ok"
          /\ NomOf(last.res) = Denoted(last.op, last.k, NomOf(last.self))
          /\ ErrOf(last.res) = Zero

\* C7: k - X, for a plain number k and a scalar X = (x, ex), returns an
\* Uncertainty with nominal k - x and error ex.
C7_ReflectedSub ==
    (last.op = "rsub" /\ ScalarBacked(U(last.self)))
    => /\ last.st = "ok"
       /\ last.res # 0
       /\ NomOf(last.res) = QSub(last.k, NomOf(last.self))
       /\ ErrOf(last.res) = ErrOf(last.self)

\* np.clip of a sequence of numbers
Clipped(dat, lo, hi) == [c \in 1..Len(dat) |-> QMin(QMax(dat[c], lo), hi)]

Cells(v, key) == IF Len(v.shape) = 1 THEN {key + 1} ELSE 1..Len(v.data)

\* key indexes the nominal and the error storage of X, and value is scalar-backed
ValidKey(X, key, V) ==
    /\ X.nom.t = "arr" /\ X.err.t = "arr"
    /\ key < Rows(X.nom) /\ key < Rows(X.err)
    /\ ScalarBacked(V)

\* C9: X[key] = value fails and leaves the nominal and error storage alone when
\* value is not an Uncertainty; for an Uncertainty value and a valid key it
\* succeeds, and whenever it succeeds X's nominal at key is value's nominal,
\* X's error at key is value's error, and every other position of both
\* storages is as before.
C9_SetItem ==
    [][last'.op = "setitem"
       => /\ last'.other = 0
             => (last'.st # "ok" /\ mem' = mem /\ arrs' = arrs /\ objs' = objs)
          /\ (last'.other # 0 /\ ValidKey(U(last'.self), last'.key, U(last'.other)))
             => last'.st = "ok"
          /\ (last'.other # 0 /\ last'.st = "ok")
             => LET X == U(last'.self)
                    V == U(last'.other)
                IN /\ \A c \in 1..Len(X.nom.data) :
                          mem'[X.nom.base][c] =
                              IF c \in Cells(X.nom, last'.key)
                              THEN El(V.nom, c) ELSE X.nom.data[c]
                   /\ \A c \in 1..Len(X.err.data) :
                          mem'[X.err.base][c] =
                              IF c \in Cells(X.err, last'.key)
                              THEN El(V.err, c) ELSE X.err.data[c]]_vars

\* an element assignment of a value whose nominal and error differ has succeeded
C9_Witness ==
    /\ last.op = "setitem" /\ last.st = "ok" /\ last.other # 0
    /\ ScalarBacked(U(last.other))
    /\ NomOf(last.other) # ErrOf(last.other)
    /\ U(last.self).nom.data[last.key + 1] = NomOf(last.other)
    /\ U(last.self).err.data[last.key + 1] = ErrOf(last.other)

\* C10: whenever a == b holds of a scalar Uncertainty a and an Uncertainty or
\* plain number b, hash(a) == hash(b).
C10_HashConsistent == (last.op = "hash" /\ last.iseq) => last.h1 = last.h2

=============================================================================
